---- MODULE Spec2Model ----
(***************************************************************************)
(* CloudSentinel API (apps/api): the relational store (users, tenants,     *)
(* user_tenants, assets, findings) and the FastAPI handlers of main.py,    *)
(* each run by a worker with its own SQLAlchemy session.  A handler is a   *)
(* sequence of statements; every db.commit() ends a transaction, so one    *)
(* action is one statement (or one flush+commit) and the statements of     *)
(* concurrent requests interleave (read committed: a statement sees what   *)
(* was committed before it).                                               *)
(*                                                                         *)
(* Strings that the code only compares for equality are TLA+ strings;      *)
(* asset names, which the code tests with endswith and formats into the    *)
(* description, are sequences of characters.  An Optional[str] is <<>>     *)
(* for None and <<s>> for the string s.                                    *)
(* Columns no handler reads (password_hash, is_active, config_json) are    *)
(* left out; created_at is the insertion order, which the id carries.      *)
(***************************************************************************)
EXTENDS Naturals, Integers, Sequences, FiniteSets, TLC

\* ------------------------------------------------------------------ bounds
\* assets ever created (value of the assets id sequence)
MaxAssets == 3
\* findings ever created (value of the findings id sequence)
MaxFindings == 7
\* tenant-scoped requests served in one behaviour of Spec
MaxRequests == 2

\* concurrent requests (one SQLAlchemy session each)
Procs == {"w1", "w2"}

\* ------------------------------------------------------------------ inputs
Emails == {"a@x.com", "b@x.com"}
TenantNames == {"acme", "beta"}
TenantIds == 1 .. Cardinality(TenantNames)

None == <<>>
Some(s) == <<s>>

logs == <<"l", "o", "g", "s">>
logs_prod == <<"l", "o", "g", "s", "-", "p", "r", "o", "d">>
prod == <<"p", "r", "o", "d">>
web == <<"w", "e", "b">>

\* AssetCreate payloads (tenant_id is chosen separately): both rules match,
\* no rule matches, only the region rule (empty string), only the name rule
\* (a name shorter than the suffix).
AssetPayloads ==
    { [type |-> "aws_s3_bucket", name |-> logs, region |-> None],
      [type |-> "aws_s3_bucket", name |-> logs_prod, region |-> Some("us-east-1")],
      [type |-> "aws_ec2_instance", name |-> web, region |-> Some("")],
      [type |-> "aws_s3_bucket", name |-> prod, region |-> Some("eu-west-1")] }

\* FindingUpdate.status is any str: the three documented values and another
StatusPayloads == {"open", "resolved", "ignored", "closed"}
\* status_f: Optional[str]
StatusFilters == {None, Some("open")}

\* ------------------------------------------------------------------- state
VARIABLES
    users,          \* rows of table users: [id, email]
    tenants,        \* rows of table tenants: [id, name]
    user_tenants,   \* rows of table user_tenants: [id, user_id, tenant_id, role]
    assets,         \* rows of table assets: [id, tenant_id, type, name, region]
    findings,       \* rows of table findings
    seq,            \* the id sequence of each table (last value handed out)
    pc,             \* pc[p]: the statement worker p executes next
    rq,             \* rq[p]: the request p is serving: [op, email, a]
    loc,            \* loc[p]: what p's session holds: [user_id, obj, to_add]
    resp,           \* resp[p]: the response: [kind, body]
    rows,           \* rows[p]: the order of the rows of a response that lists findings
    wrote,          \* wrote[p]: a commit of the request p is serving changed the store
    started         \* requests entered so far (bounds the behaviours of Spec)

vars == <<users, tenants, user_tenants, assets, findings, seq, pc, rq, loc, resp, rows, wrote, started>>
store == <<users, tenants, user_tenants, assets, findings, seq>>

\* ---------------------------------------------------------- pure helpers
EndsWith(s, suffix) ==
    /\ Len(s) >= Len(suffix)
    /\ SubSeq(s, Len(s) - Len(suffix) + 1, Len(s)) = suffix

\* Python truthiness of an Optional[str]
Truthy(o) == o # None /\ o[1] # ""

\* get_user_by_email: the user rows with this email (at most one)
get_user_by_email(U, email) == {u \in U : u.email = email}

\* the link rows ensure_user_in_tenant's query finds
Link(UT, user_id, tenant_id) ==
    {l \in UT : l.user_id = user_id /\ l.tenant_id = tenant_id}

\* the guard with the tenant left out of its filter: any link of the user passes
ensure_user_in_any_tenant(UT, user_id, tenant_id) ==
    {l \in UT : l.user_id = user_id} # {}

\* ensure_user_in_tenant returns (TRUE) or raises 403 (FALSE)
ensure_user_in_tenant(UT, user_id, tenant_id) ==
    Link(UT, user_id, tenant_id) # {}

\* ------------------------------------------------------------ rule engine
Title1 == "S3 bucket not tagged as production"
Title2 == "Asset has no region set"

\* the first rule of run_checks' loop (line 206)
Rule1(a) == a.type = "aws_s3_bucket" /\ ~EndsWith(a.name, <<"-", "p", "r", "o", "d">>)
\* the second rule (line 215)
Rule2(a) == ~Truthy(a.region)

Finding1(tenant_id, a) ==
    [tenant_id |-> tenant_id, asset_id |-> a.id, severity |-> "low",
     title |-> Title1,
     description |-> <<"Bucket '">> \o a.name \o <<"' does not end with '-prod'.">>,
     status |-> "open"]

Finding2(tenant_id, a) ==
    [tenant_id |-> tenant_id, asset_id |-> a.id, severity |-> "medium",
     title |-> Title2,
     description |-> <<"Asset '">> \o a.name \o <<"' has no region specified.">>,
     status |-> "open"]

\* the loop body with the second rule under an else: at most one finding
EvaluateFirstMatch(tenant_id, a) ==
    IF Rule1(a) THEN <<Finding1(tenant_id, a)>>
    ELSE IF Rule2(a) THEN <<Finding2(tenant_id, a)>> ELSE <<>>

\* what one iteration of the loop appends to to_add
Evaluate(tenant_id, a) ==
    (IF Rule1(a) THEN <<Finding1(tenant_id, a)>> ELSE <<>>)
    \o (IF Rule2(a) THEN <<Finding2(tenant_id, a)>> ELSE <<>>)

\* the rows of a query without ORDER BY, in insertion (id) order
RECURSIVE ById(_)
ById(S) ==
    IF S = {} THEN <<>>
    ELSE LET m == CHOOSE x \in S : \A y \in S : x.id <= y.id
         IN <<m>> \o ById(S \ {m})

\* the rows of a query with ORDER BY created_at DESC (created_at is the
\* time of the insert, so the newest row has the greatest id)
RECURSIVE Newest(_)
Newest(S) ==
    IF S = {} THEN <<>>
    ELSE LET m == CHOOSE x \in S : \A y \in S : x.id >= y.id
         IN <<m>> \o Newest(S \ {m})

\* the orders in which a query without ORDER BY may give the rows S
RECURSIVE Orders(_)
Orders(S) ==
    IF S = {} THEN {<<>>}
    ELSE UNION {{<<x>> \o t : t \in Orders(S \ {x})} : x \in S}

\* the loop of run_checks over the loaded assets
RECURSIVE ToAdd(_, _)
ToAdd(tenant_id, as) ==
    IF as = <<>> THEN <<>>
    ELSE Evaluate(tenant_id, Head(as)) \o ToAdd(tenant_id, Tail(as))

\* ----------------------------------------------------------- the store
AssetsOf(A, tenant_id) == {a \in A : a.tenant_id = tenant_id}
FindingsOf(F, tenant_id) == {f \in F : f.tenant_id = tenant_id}
OpenOf(F, tenant_id) == {f \in F : f.tenant_id = tenant_id /\ f.status = "open"}

\* the bulk delete without the status filter, and without any effect
DeleteAllOfTenant(F, tenant_id) == F \ FindingsOf(F, tenant_id)
DeleteNothing(F, tenant_id) == F

\* DELETE FROM findings WHERE tenant_id = :t AND status = 'open'
DeleteOpen(F, tenant_id) == F \ OpenOf(F, tenant_id)

\* a flush that skips the rows whose asset and title already have a row
InsertUntriaged(F, last, to_add) ==
    F \cup {[id |-> last + i] @@ to_add[i] :
               i \in {j \in 1 .. Len(to_add) :
                        \A f \in F : ~(f.asset_id = to_add[j].asset_id /\ f.title = to_add[j].title)}}

\* the flush of to_add: ids come from the sequence, in db.add order
InsertFindings(F, last, to_add) ==
    F \cup {[id |-> last + i] @@ to_add[i] : i \in 1 .. Len(to_add)}

\* a store that does not check the foreign keys
NotEnforced(T, A, to_add) == TRUE

\* foreign keys of the rows of to_add (findings.asset_id, findings.tenant_id)
ForeignKeysOk(T, A, to_add) ==
    \A i \in 1 .. Len(to_add) :
        /\ \E a \in A : a.id = to_add[i].asset_id
        /\ \E t \in T : t.id = to_add[i].tenant_id

\* the row create_asset inserts: Asset(tenant_id, type, name, region)
NewAsset(last, tenant_id, payload) ==
    [id |-> last + 1, tenant_id |-> tenant_id, type |-> payload.type,
     name |-> payload.name, region |-> payload.region]

\* list_findings' filter: applied when status_f is truthy
FilterStatus(q, status_f) ==
    IF Truthy(status_f) THEN {f \in q : f.status = status_f[1]} ELSE q

\* findings.asset_id without ON DELETE CASCADE
NoCascade(F, asset_id) == F

\* DELETE FROM assets WHERE id = :id, and what ON DELETE CASCADE removes
DeleteAsset(A, asset_id) == {a \in A : a.id # asset_id}
CascadeFindings(F, asset_id) == {f \in F : f.asset_id # asset_id}

\* the row the handlers look up by a key (query(...).filter(...).first())
TenantByName(T, name) == {t \in T : t.name = name}
AssetById(A, asset_id) == {a \in A : a.id = asset_id}
FindingById(F, finding_id) == {f \in F : f.id = finding_id}

\* tenants.name without unique=True
Unconstrained(T, name) == TRUE

\* the unique constraints the store enforces when a row is inserted:
\* users.email, tenants.name and uq_user_tenant (user_id, tenant_id)
UniqueEmail(U, email) == \A u \in U : u.email # email
UniqueTenantName(T, name) == \A t \in T : t.name # name
UniqueLink(UT, user_id, tenant_id) ==
    \A l \in UT : ~(l.user_id = user_id /\ l.tenant_id = tenant_id)

\* ------------------------------------------------------------- requests
NoReq == [op |-> "none", email |-> "", a |-> <<>>]
NoLoc == [user_id |-> 0, obj |-> {}, to_add |-> <<>>]
NoResp == [kind |-> "none", body |-> {}]

\* the workers are idle
Idle ==
    /\ pc = [p \in Procs |-> "idle"]
    /\ rq = [p \in Procs |-> NoReq]
    /\ loc = [p \in Procs |-> NoLoc]
    /\ resp = [p \in Procs |-> NoResp]
    /\ rows = [p \in Procs |-> <<>>]
    /\ wrote = [p \in Procs |-> FALSE]
    /\ started = 0

\* init_db on an empty database: the tables exist and hold no row
InitEmpty ==
    /\ users = {}
    /\ tenants = {}
    /\ user_tenants = {}
    /\ assets = {}
    /\ findings = {}
    /\ seq = [users |-> 0, tenants |-> 0, user_tenants |-> 0, assets |-> 0, findings |-> 0]
    /\ Idle

\* The database after a@x.com and b@x.com registered and a created tenant
\* "acme" and b tenant "beta" (SpecIdentity reaches it).
SeedIdentity ==
    /\ users = {[id |-> 1, email |-> "a@x.com"], [id |-> 2, email |-> "b@x.com"]}
    /\ tenants = {[id |-> 1, name |-> "acme"], [id |-> 2, name |-> "beta"]}
    /\ user_tenants = {[id |-> 1, user_id |-> 1, tenant_id |-> 1, role |-> "owner"],
                       [id |-> 2, user_id |-> 2, tenant_id |-> 2, role |-> "owner"]}

SeedAsset == [id |-> 1, tenant_id |-> 1, type |-> "aws_s3_bucket", name |-> logs, region |-> None]

\* b's instance "web" with an empty region in beta
SeedOther == [id |-> 2, tenant_id |-> 2, type |-> "aws_ec2_instance", name |-> web, region |-> Some("")]

\* Spec starts after a created the bucket "logs" without region in acme, ran
\* the checks and resolved the first of the two findings, and b created the
\* instance "web" in beta and ran the checks.
InitScoped ==
    /\ SeedIdentity
    /\ assets = {SeedAsset, SeedOther}
    /\ findings = {[id |-> 1] @@ [Finding1(1, SeedAsset) EXCEPT !.status = "resolved"],
                   [id |-> 2] @@ Finding2(1, SeedAsset),
                   [id |-> 3] @@ Finding2(2, SeedOther)}
    /\ seq = [users |-> 2, tenants |-> 2, user_tenants |-> 2, assets |-> 2, findings |-> 3]
    /\ Idle

\* The ids a request may name: those handed out so far and the next one of
\* the sequence, which stands for every id that was never handed out.
AssetIds == 1 .. (seq.assets + 1)
FindingIds == 1 .. (seq.findings + 1)

\* a bearer token for email exists once login could have issued it
HasToken(email) == get_user_by_email(users, email) # {}

UserId(email) == (CHOOSE u \in users : u.email = email).id

\* the handler is entered with its parameters
Enter(p, op, email, a) ==
    /\ pc[p] = "idle"
    /\ rq' = [rq EXCEPT ![p] = [op |-> op, email |-> email, a |-> a]]

\* a tenant-scoped request is admitted while the bound allows
Counted == /\ started < MaxRequests
           /\ started' = started + 1

Goto(p, label) == /\ pc' = [pc EXCEPT ![p] = label]
                  /\ resp' = resp
                  /\ rows' = rows

\* the handler returns, or raises: kind is "Ok" (2xx), "Conflict" (the 400 of
\* an existence check), "Forbidden" (403), "NotFound" (404) or "ServerError"
\* (500: an exception no handler catches)
Reply(p, kind, body) ==
    /\ pc' = [pc EXCEPT ![p] = "done"]
    /\ resp' = [resp EXCEPT ![p] = [kind |-> kind, body |-> body]]
    /\ rows' = [rows EXCEPT ![p] = <<>>]

\* the handler returns a list of findings in the order the query gave them
ReplyRows(p, listed) ==
    /\ pc' = [pc EXCEPT ![p] = "done"]
    /\ resp' = [resp EXCEPT ![p] = [kind |-> "Ok", body |-> {listed[i] : i \in 1 .. Len(listed)}]]
    /\ rows' = [rows EXCEPT ![p] = listed]

Hold(p, user_id, obj, to_add) ==
    loc' = [loc EXCEPT ![p] = [user_id |-> user_id, obj |-> obj, to_add |-> to_add]]

\* the statement p executed was a commit that changed the store
Committed(p) == wrote' = [wrote EXCEPT ![p] = @ \/ store' # store]

\* get_db's finally: the session is closed and the worker is free again
respond(p) ==
    /\ UNCHANGED started
    /\ pc[p] = "done"
    /\ pc' = [pc EXCEPT ![p] = "idle"]
    /\ rq' = [rq EXCEPT ![p] = NoReq]
    /\ loc' = [loc EXCEPT ![p] = NoLoc]
    /\ resp' = [resp EXCEPT ![p] = NoResp]
    /\ rows' = [rows EXCEPT ![p] = <<>>]
    /\ UNCHANGED store
    /\ wrote' = [wrote EXCEPT ![p] = FALSE]

\* ------------------------------------------------------ POST /auth/register
\* line 56-58: the existence check
register_check(p, email) ==
    /\ UNCHANGED started
    /\ Enter(p, "register", email, <<>>)
    /\ IF get_user_by_email(users, email) # {}
       THEN Reply(p, "Conflict", {})
       ELSE Goto(p, "register_insert")
    /\ UNCHANGED <<store, loc>>
    /\ Committed(p)

\* line 59-61: db.add(new_user); db.commit(); db.refresh(new_user)
register_insert(p) ==
    /\ UNCHANGED started
    /\ pc[p] = "register_insert"
    /\ IF ~UniqueEmail(users, rq[p].email)
       THEN /\ Reply(p, "ServerError", {})
            /\ UNCHANGED store
       ELSE LET u == [id |-> seq.users + 1, email |-> rq[p].email]
            IN /\ users' = users \cup {u}
               /\ seq' = [seq EXCEPT !.users = @ + 1]
               /\ Reply(p, "Ok", {u})
               /\ UNCHANGED <<tenants, user_tenants, assets, findings>>
    /\ UNCHANGED <<rq, loc>>
    /\ Committed(p)

\* ------------------------------------------------------------ POST /tenants
\* line 105-110: get_user_by_email and the existence check on the name
create_tenant_check(p, email, name) ==
    /\ UNCHANGED started
    /\ HasToken(email)
    /\ Enter(p, "create_tenant", email, [name |-> name])
    /\ IF get_user_by_email(users, email) = {}
       THEN Reply(p, "NotFound", {}) /\ UNCHANGED loc
       ELSE IF TenantByName(tenants, name) # {}
       THEN Reply(p, "Conflict", {}) /\ UNCHANGED loc
       ELSE Goto(p, "create_tenant_insert") /\ Hold(p, UserId(email), {}, <<>>)
    /\ UNCHANGED store
    /\ Committed(p)

\* line 111-112: t = Tenant(name); db.add(t); db.commit(); db.refresh(t)
create_tenant_insert(p) ==
    /\ UNCHANGED started
    /\ pc[p] = "create_tenant_insert"
    /\ IF ~UniqueTenantName(tenants, rq[p].a.name)
       THEN /\ Reply(p, "ServerError", {})
            /\ UNCHANGED <<store, loc>>
       ELSE LET t == [id |-> seq.tenants + 1, name |-> rq[p].a.name]
            IN /\ tenants' = tenants \cup {t}
               /\ seq' = [seq EXCEPT !.tenants = @ + 1]
               /\ Hold(p, loc[p].user_id, {t}, <<>>)
               /\ Goto(p, "create_tenant_link")
               /\ UNCHANGED <<users, user_tenants, assets, findings>>
    /\ UNCHANGED rq
    /\ Committed(p)

\* line 113-114: db.add(UserTenant(user.id, t.id, "owner")); db.commit()
create_tenant_link(p) ==
    /\ UNCHANGED started
    /\ pc[p] = "create_tenant_link"
    /\ LET t == CHOOSE x \in loc[p].obj : TRUE
       IN IF ~UniqueLink(user_tenants, loc[p].user_id, t.id)
          THEN /\ Reply(p, "ServerError", {})
               /\ UNCHANGED store
          ELSE /\ user_tenants' = user_tenants \cup
                    {[id |-> seq.user_tenants + 1, user_id |-> loc[p].user_id,
                      tenant_id |-> t.id, role |-> "owner"]}
               /\ seq' = [seq EXCEPT !.user_tenants = @ + 1]
               /\ Reply(p, "Ok", {t})
               /\ UNCHANGED <<users, tenants, assets, findings>>
    /\ UNCHANGED <<rq, loc>>
    /\ Committed(p)

\* ------------------------------------------------------------- GET /tenants
\* line 119-125: the tenants joined to the caller's links
list_my_tenants(p, email) ==
    /\ UNCHANGED started
    /\ HasToken(email)
    /\ Enter(p, "list_my_tenants", email, <<>>)
    /\ IF get_user_by_email(users, email) = {}
       THEN Reply(p, "NotFound", {})
       ELSE Reply(p, "Ok", {t \in tenants : Link(user_tenants, UserId(email), t.id) # {}})
    /\ UNCHANGED <<store, loc>>
    /\ Committed(p)

\* ------------------------------------------------------------- POST /assets
\* asset rows being inserted by handlers that passed the guard
AssetsInFlight == Cardinality({q \in Procs : pc[q] = "create_asset_insert"})

\* line 132-135: get_user_by_email and ensure_user_in_tenant
create_asset_guard(p, email, tenant_id, payload) ==
    /\ Counted
    /\ HasToken(email)
    /\ seq.assets + AssetsInFlight < MaxAssets
    /\ Enter(p, "create_asset", email, [tenant_id |-> tenant_id, payload |-> payload])
    /\ IF get_user_by_email(users, email) = {}
       THEN Reply(p, "NotFound", {}) /\ UNCHANGED loc
       ELSE IF ~ensure_user_in_tenant(user_tenants, UserId(email), tenant_id)
       THEN Reply(p, "Forbidden", {}) /\ UNCHANGED loc
       ELSE Goto(p, "create_asset_insert") /\ Hold(p, UserId(email), {}, <<>>)
    /\ UNCHANGED store
    /\ Committed(p)

\* line 137-145: a = Asset(...); db.add(a); db.commit(); db.refresh(a)
create_asset_insert(p) ==
    /\ UNCHANGED started
    /\ pc[p] = "create_asset_insert"
    /\ LET a == NewAsset(seq.assets, rq[p].a.tenant_id, rq[p].a.payload)
       IN /\ assets' = assets \cup {a}
          /\ seq' = [seq EXCEPT !.assets = @ + 1]
          /\ Reply(p, "Ok", {a})
    /\ UNCHANGED <<users, tenants, user_tenants, findings, rq, loc>>
    /\ Committed(p)

\* -------------------------------------------------------------- GET /assets
\* line 151-154
list_assets_guard(p, email, tenant_id) ==
    /\ Counted
    /\ HasToken(email)
    /\ Enter(p, "list_assets", email, [tenant_id |-> tenant_id])
    /\ IF get_user_by_email(users, email) = {}
       THEN Reply(p, "NotFound", {}) /\ UNCHANGED loc
       ELSE IF ~ensure_user_in_tenant(user_tenants, UserId(email), tenant_id)
       THEN Reply(p, "Forbidden", {}) /\ UNCHANGED loc
       ELSE Goto(p, "list_assets_query") /\ Hold(p, UserId(email), {}, <<>>)
    /\ UNCHANGED store
    /\ Committed(p)

\* line 155-156
list_assets_query(p) ==
    /\ UNCHANGED started
    /\ pc[p] = "list_assets_query"
    /\ Reply(p, "Ok", AssetsOf(assets, rq[p].a.tenant_id))
    /\ UNCHANGED <<store, rq, loc>>
    /\ Committed(p)

\* ------------------------------------------------ DELETE /assets/{asset_id}
\* line 162-167: get_user_by_email and the lookup of the asset by id
delete_asset_lookup(p, email, asset_id) ==
    /\ Counted
    /\ HasToken(email)
    /\ Enter(p, "delete_asset", email, [asset_id |-> asset_id])
    /\ LET found == AssetById(assets, asset_id)
       IN IF get_user_by_email(users, email) = {}
          THEN Reply(p, "NotFound", {}) /\ UNCHANGED loc
          ELSE IF found = {}
          THEN Reply(p, "NotFound", {}) /\ UNCHANGED loc
          ELSE Goto(p, "delete_asset_guard") /\ Hold(p, UserId(email), found, <<>>)
    /\ UNCHANGED store
    /\ Committed(p)

\* line 168: ensure_user_in_tenant(db, user.id, a.tenant_id)
delete_asset_guard(p) ==
    /\ UNCHANGED started
    /\ pc[p] = "delete_asset_guard"
    /\ LET a == CHOOSE x \in loc[p].obj : TRUE
       IN IF ~ensure_user_in_tenant(user_tenants, loc[p].user_id, a.tenant_id)
          THEN Reply(p, "Forbidden", {})
          ELSE Goto(p, "delete_asset_commit")
    /\ UNCHANGED <<store, rq, loc>>
    /\ Committed(p)

\* line 169-170: db.delete(a); db.commit().  A DELETE that matches no row
\* (the asset is already gone) is only a warning of the ORM.
delete_asset_commit(p) ==
    /\ UNCHANGED started
    /\ pc[p] = "delete_asset_commit"
    /\ LET a == CHOOSE x \in loc[p].obj : TRUE
       IN /\ assets' = DeleteAsset(assets, a.id)
          /\ findings' = CascadeFindings(findings, a.id)
    /\ Reply(p, "Ok", {})
    /\ UNCHANGED <<users, tenants, user_tenants, seq, rq, loc>>
    /\ Committed(p)

\* ------------------------------------------------------------ GET /findings
\* line 177-180
list_findings_guard(p, email, tenant_id, status_f) ==
    /\ Counted
    /\ HasToken(email)
    /\ Enter(p, "list_findings", email, [tenant_id |-> tenant_id, status_f |-> status_f])
    /\ IF get_user_by_email(users, email) = {}
       THEN Reply(p, "NotFound", {}) /\ UNCHANGED loc
       ELSE IF ~ensure_user_in_tenant(user_tenants, UserId(email), tenant_id)
       THEN Reply(p, "Forbidden", {}) /\ UNCHANGED loc
       ELSE Goto(p, "list_findings_query") /\ Hold(p, UserId(email), {}, <<>>)
    /\ UNCHANGED store
    /\ Committed(p)

\* line 181-184: the filter on status applies when status_f is truthy
list_findings_query(p) ==
    /\ UNCHANGED started
    /\ pc[p] = "list_findings_query"
    /\ ReplyRows(p, Newest(FilterStatus(FindingsOf(findings, rq[p].a.tenant_id), rq[p].a.status_f)))
    /\ UNCHANGED <<store, rq, loc>>
    /\ Committed(p)

\* ------------------------------------------------------- POST /findings/run
\* run_checks with the clearing delete moved above the membership check
run_checks_clear_unguarded(p, email, tenant_id) ==
    /\ Counted
    /\ HasToken(email)
    /\ seq.findings < MaxFindings
    /\ Enter(p, "run_checks", email, [tenant_id |-> tenant_id])
    /\ findings' = DeleteOpen(findings, tenant_id)
    /\ IF ~ensure_user_in_tenant(user_tenants, UserId(email), tenant_id)
       THEN Reply(p, "Forbidden", {}) /\ UNCHANGED loc
       ELSE Goto(p, "run_checks_load") /\ Hold(p, UserId(email), {}, <<>>)
    /\ UNCHANGED <<users, tenants, user_tenants, assets, seq>>
    /\ Committed(p)

\* line 194-197
run_checks_guard(p, email, tenant_id) ==
    /\ Counted
    /\ HasToken(email)
    /\ seq.findings < MaxFindings
    /\ Enter(p, "run_checks", email, [tenant_id |-> tenant_id])
    /\ IF get_user_by_email(users, email) = {}
       THEN Reply(p, "NotFound", {}) /\ UNCHANGED loc
       ELSE IF ~ensure_user_in_tenant(user_tenants, UserId(email), tenant_id)
       THEN Reply(p, "Forbidden", {}) /\ UNCHANGED loc
       ELSE Goto(p, "run_checks_clear") /\ Hold(p, UserId(email), {}, <<>>)
    /\ UNCHANGED store
    /\ Committed(p)

\* line 199-201: the bulk delete of the open findings, and db.commit()
run_checks_clear(p) ==
    /\ UNCHANGED started
    /\ pc[p] = "run_checks_clear"
    /\ findings' = DeleteOpen(findings, rq[p].a.tenant_id)
    /\ Goto(p, "run_checks_load")
    /\ UNCHANGED <<users, tenants, user_tenants, assets, seq, rq, loc>>
    /\ Committed(p)

\* line 203-223: the assets of the tenant are loaded and the rules evaluated
run_checks_load(p) ==
    /\ UNCHANGED started
    /\ pc[p] = "run_checks_load"
    /\ LET loaded == AssetsOf(assets, rq[p].a.tenant_id)
       IN Hold(p, loc[p].user_id, loaded, ToAdd(rq[p].a.tenant_id, ById(loaded)))
    /\ Goto(p, "run_checks_insert")
    /\ UNCHANGED <<store, rq>>
    /\ Committed(p)

\* line 224-226: db.add(f) for each f of to_add; db.commit().  The flush
\* fails as a whole when an asset of to_add was deleted in the meantime.
run_checks_insert(p) ==
    /\ UNCHANGED started
    /\ pc[p] = "run_checks_insert"
    /\ seq.findings + Len(loc[p].to_add) <= MaxFindings
    /\ IF ~ForeignKeysOk(tenants, assets, loc[p].to_add)
       THEN /\ Reply(p, "ServerError", {})
            /\ UNCHANGED store
       ELSE /\ findings' = InsertFindings(findings, seq.findings, loc[p].to_add)
            /\ seq' = [seq EXCEPT !.findings = @ + Len(loc[p].to_add)]
            /\ Goto(p, "run_checks_return")
            /\ UNCHANGED <<users, tenants, user_tenants, assets>>
    /\ UNCHANGED <<rq, loc>>
    /\ Committed(p)

\* line 228: the open findings of the tenant are queried and returned; the
\* query has no ORDER BY, so the store may give the rows in any order
run_checks_return(p) ==
    /\ UNCHANGED started
    /\ pc[p] = "run_checks_return"
    /\ \E listed \in Orders(OpenOf(findings, rq[p].a.tenant_id)) : ReplyRows(p, listed)
    /\ UNCHANGED <<store, rq, loc>>
    /\ Committed(p)

\* --------------------------------------------- PATCH /findings/{finding_id}
\* line 234-239: get_user_by_email and the lookup of the finding by id
update_finding_lookup(p, email, finding_id, status) ==
    /\ Counted
    /\ HasToken(email)
    /\ Enter(p, "update_finding", email, [finding_id |-> finding_id, status |-> status])
    /\ LET found == FindingById(findings, finding_id)
       IN IF get_user_by_email(users, email) = {}
          THEN Reply(p, "NotFound", {}) /\ UNCHANGED loc
          ELSE IF found = {}
          THEN Reply(p, "NotFound", {}) /\ UNCHANGED loc
          ELSE Goto(p, "update_finding_guard") /\ Hold(p, UserId(email), found, <<>>)
    /\ UNCHANGED store
    /\ Committed(p)

\* line 240: ensure_user_in_tenant(db, user.id, f.tenant_id)
update_finding_guard(p) ==
    /\ UNCHANGED started
    /\ pc[p] = "update_finding_guard"
    /\ LET f == CHOOSE x \in loc[p].obj : TRUE
       IN IF ~ensure_user_in_tenant(user_tenants, loc[p].user_id, f.tenant_id)
          THEN Reply(p, "Forbidden", {})
          ELSE Goto(p, "update_finding_commit")
    /\ UNCHANGED <<store, rq, loc>>
    /\ Committed(p)

\* UPDATE findings SET status = :s WHERE id = :id
SetStatus(F, finding_id, status) ==
    {IF f.id = finding_id THEN [f EXCEPT !.status = status] ELSE f : f \in F}

\* line 241-243: f.status = payload.status; db.commit(); db.refresh(f).
\* The unit of work emits the UPDATE only when the new value differs from the
\* loaded one; an UPDATE or a refresh that finds no row raises.
update_finding_commit(p) ==
    /\ UNCHANGED started
    /\ pc[p] = "update_finding_commit"
    /\ LET f == CHOOSE x \in loc[p].obj : TRUE
           now == FindingById(findings, f.id)
       IN IF now = {}
          THEN /\ Reply(p, "ServerError", {})
               /\ UNCHANGED findings
          ELSE IF rq[p].a.status = f.status
          THEN /\ Reply(p, "Ok", now)
               /\ UNCHANGED findings
          ELSE /\ findings' = SetStatus(findings, f.id, rq[p].a.status)
               /\ Reply(p, "Ok", {[x EXCEPT !.status = rq[p].a.status] : x \in now})
    /\ UNCHANGED <<users, tenants, user_tenants, assets, seq, rq, loc>>
    /\ Committed(p)

\* ---------------------------------------------------------- specification
\* one statement of an identity endpoint, executed by worker p
IdentityStep(p) ==
    \/ \E email \in Emails : register_check(p, email)
    \/ register_insert(p)
    \/ \E email \in Emails, name \in TenantNames : create_tenant_check(p, email, name)
    \/ create_tenant_insert(p)
    \/ create_tenant_link(p)
    \/ \E email \in Emails : list_my_tenants(p, email)
    \/ respond(p)

\* one statement of a tenant-scoped endpoint, executed by worker p
ScopedStep(p) ==
    \/ \E email \in Emails, tenant_id \in TenantIds, payload \in AssetPayloads :
           create_asset_guard(p, email, tenant_id, payload)
    \/ create_asset_insert(p)
    \/ \E email \in Emails, tenant_id \in TenantIds : list_assets_guard(p, email, tenant_id)
    \/ list_assets_query(p)
    \/ \E email \in Emails, asset_id \in AssetIds : delete_asset_lookup(p, email, asset_id)
    \/ delete_asset_guard(p)
    \/ delete_asset_commit(p)
    \/ \E email \in Emails, tenant_id \in TenantIds, status_f \in StatusFilters :
           list_findings_guard(p, email, tenant_id, status_f)
    \/ list_findings_query(p)
    \/ \E email \in Emails, tenant_id \in TenantIds : run_checks_guard(p, email, tenant_id)
    \/ run_checks_clear(p)
    \/ run_checks_load(p)
    \/ run_checks_insert(p)
    \/ run_checks_return(p)
    \/ \E email \in Emails, finding_id \in FindingIds, status \in StatusPayloads :
           update_finding_lookup(p, email, finding_id, status)
    \/ update_finding_guard(p)
    \/ update_finding_commit(p)
    \/ respond(p)

\* registration and tenant creation by concurrent workers, from the empty
\* database
NextIdentity == \E p \in Procs : IdentityStep(p)

\* the tenant-scoped endpoints served by concurrent workers
Next == \E p \in Procs : ScopedStep(p)

\* the tenant-scoped endpoints served by one worker: no request interleaves
\* with another
NextSolo == ScopedStep("w1")

Init == InitScoped

Spec == Init /\ [][Next]_vars

SpecSolo == Init /\ [][NextSolo]_vars

SpecIdentity == InitEmpty /\ [][NextIdentity]_vars

\* ------------------------------------------------- a handler run alone
\* run_checks from the clearing delete to the final query, when no statement
\* of another request comes in between: the findings table, the sequence and
\* the rows returned
RunChecksAlone(A, F, last, tenant_id) ==
    LET to_add == ToAdd(tenant_id, ById(AssetsOf(A, tenant_id)))
        after == InsertFindings(DeleteOpen(F, tenant_id), last, to_add)
    IN [findings |-> after, last |-> last + Len(to_add), body |-> OpenOf(after, tenant_id)]

\* the response to request r of the user user_id when its handler runs alone
\* on the store (UT, A, F) with the id sequences lastA, lastF
ResponseAlone(r, user_id, UT, A, F, lastA, lastF) ==
    LET Forbidden == [kind |-> "Forbidden", body |-> {}]
        NotFound == [kind |-> "NotFound", body |-> {}]
        Guarded(tenant_id, ok) ==
            IF ensure_user_in_tenant(UT, user_id, tenant_id) THEN ok ELSE Forbidden
    IN CASE r.op = "create_asset" ->
              Guarded(r.a.tenant_id,
                      [kind |-> "Ok", body |-> {NewAsset(lastA, r.a.tenant_id, r.a.payload)}])
         [] r.op = "list_assets" ->
              Guarded(r.a.tenant_id, [kind |-> "Ok", body |-> AssetsOf(A, r.a.tenant_id)])
         [] r.op = "delete_asset" ->
              IF AssetById(A, r.a.asset_id) = {} THEN NotFound
              ELSE Guarded((CHOOSE a \in AssetById(A, r.a.asset_id) : TRUE).tenant_id,
                           [kind |-> "Ok", body |-> {}])
         [] r.op = "list_findings" ->
              Guarded(r.a.tenant_id,
                      [kind |-> "Ok",
                       body |-> FilterStatus(FindingsOf(F, r.a.tenant_id), r.a.status_f)])
         [] r.op = "run_checks" ->
              Guarded(r.a.tenant_id,
                      [kind |-> "Ok", body |-> RunChecksAlone(A, F, lastF, r.a.tenant_id).body])
         [] r.op = "update_finding" ->
              IF FindingById(F, r.a.finding_id) = {} THEN NotFound
              ELSE Guarded((CHOOSE f \in FindingById(F, r.a.finding_id) : TRUE).tenant_id,
                           [kind |-> "Ok",
                            body |-> FindingById(SetStatus(F, r.a.finding_id, r.a.status),
                                                 r.a.finding_id)])

\* ------------------------------------------------------------ vocabulary
\* the worker that takes the step, and the request it is serving in it
Steps(p) == pc'[p] # pc[p]
\* the step is a statement of p's handler (not the closing of its session)
Executes(p) == Steps(p) /\ pc[p] # "done"
Request(p) == IF pc[p] = "idle" THEN rq'[p] ELSE rq[p]

\* a membership row for the user with this email and the tenant exists
HasMembership(email, tenant_id) ==
    \E u \in users, l \in user_tenants :
        u.email = email /\ l.user_id = u.id /\ l.tenant_id = tenant_id

\* the tenant a request is scoped to: the tenant_id it names, or the tenant
\* of the asset or finding whose id it names (none when no such row exists)
ScopeOf(r, A, F) ==
    CASE r.op \in {"create_asset", "list_assets", "list_findings", "run_checks"} ->
             {r.a.tenant_id}
      [] r.op = "delete_asset" -> {a.tenant_id : a \in AssetById(A, r.a.asset_id)}
      [] r.op = "update_finding" -> {f.tenant_id : f \in FindingById(F, r.a.finding_id)}
      [] OTHER -> {}

\* ------------------------------------------------------------------- C1
\* C1 (tenant isolation): a request that the user U2 addresses to tenant T1,
\* by its tenant_id or by the id of one of T1's assets or findings, while U2
\* has no membership row for T1, ends with Forbidden and an empty body in the
\* statement that performs the membership check, and no statement of a
\* request of U2 changes an asset or a finding of T1.
C1_TenantIsolation ==
    [][\A p \in Procs : \A t \in TenantIds :
          (Executes(p) /\ ~HasMembership(Request(p).email, t)) =>
              /\ AssetsOf(assets', t) = AssetsOf(assets, t)
              /\ FindingsOf(findings', t) = FindingsOf(findings, t)
              /\ (t \in ScopeOf(Request(p), assets, findings) =>
                    \/ /\ pc'[p] = "done"
                       /\ resp'[p] = [kind |-> "Forbidden", body |-> {}]
                    \/ /\ pc[p] = "idle"
                       /\ pc'[p] \in {"delete_asset_guard", "update_finding_guard"}
                       /\ resp'[p] = NoResp)
      ]_vars

\* b@x.com, who is no member of acme, was refused the deletion of acme's
\* asset, which is still there with its findings
C1_Witness ==
    \E p \in Procs :
        /\ pc[p] = "done"
        /\ rq[p].op = "delete_asset"
        /\ resp[p].kind = "Forbidden"
        /\ ~HasMembership(rq[p].email, 1)
        /\ loc[p].obj = {SeedAsset}
        /\ SeedAsset \in assets
        /\ \E f \in findings : f.asset_id = SeedAsset.id

\* ------------------------------------------------------------------- C2
\* the statements that follow the call of ensure_user_in_tenant in a handler
AfterGuard ==
    {"create_asset_insert", "list_assets_query", "delete_asset_commit",
     "list_findings_query", "run_checks_clear", "run_checks_load",
     "run_checks_insert", "run_checks_return", "update_finding_commit"}

\* the step loads asset or finding rows into the session or the response
Reads(p) == \/ ~(loc'[p].obj \subseteq loc[p].obj)
            \/ (resp'[p].body # {} /\ resp'[p] # resp[p])
\* the step changes the Asset or the Finding store
Writes(p) == assets' # assets \/ findings' # findings
\* the step evaluates the rules
Evaluates(p) == loc'[p].to_add # loc[p].to_add

\* the tenant whose membership the handler has to check
GuardedTenants(p) ==
    IF Request(p).op \in {"delete_asset", "update_finding"}
    THEN {x.tenant_id : x \in (IF pc[p] = "idle" THEN loc'[p].obj ELSE loc[p].obj)}
    ELSE {Request(p).a.tenant_id}

\* the lookup of the one row a request names by id
LookupById(p) ==
    /\ pc[p] = "idle"
    /\ pc'[p] \in {"delete_asset_guard", "update_finding_guard"}
    /\ resp'[p] = NoResp
    /\ loc'[p].to_add = <<>>
    /\ loc'[p].obj = IF Request(p).op = "delete_asset"
                     THEN AssetById(assets, Request(p).a.asset_id)
                     ELSE FindingById(findings, Request(p).a.finding_id)

\* C2 (guard first): every statement of a tenant-scoped request
\* that reads a row of the Asset or Finding store, writes one of these
\* stores or evaluates a rule comes after the membership check of the request.
C2_GuardFirst ==
    [][\A p \in Procs :
          (Executes(p) /\ (Reads(p) \/ Writes(p) \/ Evaluates(p))) => pc[p] \in AfterGuard
      ]_vars

\* C2 (guard before use): a statement that reads rows, writes or evaluates a rule
\* comes after the membership check, which passed for the caller and the
\* owning tenant; the one exception is the first statement of delete_asset
\* and update_finding, which reads the row named by id, writes nothing and
\* returns nothing.
C2_GuardBeforeUse ==
    [][\A p \in Procs :
          Executes(p) =>
              /\ (Reads(p) \/ Writes(p) \/ Evaluates(p)) =>
                     \/ pc[p] \in AfterGuard
                     \/ LookupById(p) /\ ~Writes(p)
              /\ (pc'[p] \in AfterGuard /\ pc[p] \notin AfterGuard) =>
                     \A t \in GuardedTenants(p) : HasMembership(Request(p).email, t)
      ]_vars

\* a finding was looked up by id, the membership check of its tenant passed
\* and the status was written
C2_Witness ==
    \E p \in Procs :
        /\ pc[p] = "done"
        /\ rq[p].op = "update_finding"
        /\ resp[p].kind = "Ok"
        /\ resp[p].body \subseteq findings
        /\ \E f \in loc[p].obj : f.status # rq[p].a.status

\* ------------------------------------------------------------------- C3
\* every tenant-scoped request the user with this email can issue
RequestsOf(email) ==
    {[op |-> "create_asset", email |-> email, a |-> [tenant_id |-> t, payload |-> y]] :
        t \in TenantIds, y \in AssetPayloads}
    \cup {[op |-> "list_assets", email |-> email, a |-> [tenant_id |-> t]] : t \in TenantIds}
    \cup {[op |-> "delete_asset", email |-> email, a |-> [asset_id |-> i]] : i \in AssetIds}
    \cup {[op |-> "list_findings", email |-> email, a |-> [tenant_id |-> t, status_f |-> sf]] :
        t \in TenantIds, sf \in StatusFilters}
    \cup {[op |-> "run_checks", email |-> email, a |-> [tenant_id |-> t]] : t \in TenantIds}
    \cup {[op |-> "update_finding", email |-> email, a |-> [finding_id |-> i, status |-> st]] :
        i \in FindingIds, st \in StatusPayloads}

\* the stores that differ from the current one only in the assets and
\* findings of tenant B: any part of B's assets, with or without the findings
\* of the assets kept
OtherStores(B) ==
    {[assets |-> (assets \ AssetsOf(assets, B)) \cup X,
      findings |-> (findings \ FindingsOf(findings, B)) \cup
                   (IF keep THEN {f \in FindingsOf(findings, B) : \E a \in X : a.id = f.asset_id}
                    ELSE {})] :
        X \in SUBSET AssetsOf(assets, B), keep \in BOOLEAN}

\* u is a member of tenant A and of no other tenant
MemberOfOnly(u, A) ==
    \A t \in tenants : Link(user_tenants, u.id, t.id) # {} <=> t.id = A

Here(r, u) ==
    ResponseAlone(r, u.id, user_tenants, assets, findings, seq.assets, seq.findings)
There(r, u, o) ==
    ResponseAlone(r, u.id, user_tenants, o.assets, o.findings, seq.assets, seq.findings)

\* the id r names belongs to a row of B in exactly one of the two stores
NamesRowOfB(r, o) ==
    \/ r.op = "delete_asset"
         /\ AssetById(assets, r.a.asset_id) # AssetById(o.assets, r.a.asset_id)
    \/ r.op = "update_finding"
         /\ FindingById(findings, r.a.finding_id) # FindingById(o.findings, r.a.finding_id)

\* the id r names is the id of a row of the current store
RowHere(r) ==
    IF r.op = "delete_asset" THEN AssetById(assets, r.a.asset_id) # {}
    ELSE FindingById(findings, r.a.finding_id) # {}

Quiescent == \A p \in Procs : pc[p] = "idle"

\* C3 (non-observability): a member of tenant A only gets the same
\* response to every request in two stores that differ only in the assets and
\* findings of another tenant B.
C3_NonObservable ==
    Quiescent =>
        \A u \in users : \A A \in TenantIds, B \in TenantIds :
            (A # B /\ MemberOfOnly(u, A)) =>
                \A o \in OtherStores(B) : \A r \in RequestsOf(u.email) :
                    Here(r, u) = There(r, u, o)

\* The extent of the difference: the responses are the same except for delete_asset and
\* update_finding with an id that belongs to B in one store and to nothing in
\* the other, which answer Forbidden where the row exists and NotFound where
\* it does not, with an empty body in both.
C3_NonObservableButExistence ==
    Quiescent =>
        \A u \in users : \A A \in TenantIds, B \in TenantIds :
            (A # B /\ MemberOfOnly(u, A)) =>
                \A o \in OtherStores(B) : \A r \in RequestsOf(u.email) :
                    IF NamesRowOfB(r, o)
                    THEN /\ {Here(r, u), There(r, u, o)} =
                              {[kind |-> "Forbidden", body |-> {}],
                               [kind |-> "NotFound", body |-> {}]}
                         /\ Here(r, u).kind = "Forbidden" <=> RowHere(r)
                    ELSE Here(r, u) = There(r, u, o)

\* ------------------------------------------------------------------- C4
\* p takes a step of a run_checks request
RunChecksStep(p) == Executes(p) /\ Request(p).op = "run_checks"

\* C4 (triage is sticky): every finding of tenant T whose status is not
\* "open" when a step of run_checks(T) executes is still in the table after
\* the step, the same row (id, asset, severity, title, description, status),
\* whatever the other worker did before.
C4_TriageSticky ==
    [][\A p \in Procs :
          RunChecksStep(p) =>
              \A f \in FindingsOf(findings, Request(p).a.tenant_id) :
                  f.status # "open" => f \in findings'
      ]_vars

\* a run_checks returned while a resolved or ignored finding of its tenant,
\* set so by update_finding, stays next to the open ones it created
C4_Witness ==
    \E p \in Procs :
        /\ pc[p] = "done" /\ rq[p].op = "run_checks" /\ resp[p].kind = "Ok"
        /\ resp[p].body # {}
        /\ \E f \in FindingsOf(findings, rq[p].a.tenant_id) : f.status = "ignored"

\* ------------------------------------------------------------------- C5
\* the findings the two rules call for, stated on the assets of the tenant
Expected(A, tenant_id) ==
    {[tenant_id |-> tenant_id, asset_id |-> a.id, severity |-> "low",
      title |-> "S3 bucket not tagged as production", status |-> "open"] :
        a \in {x \in AssetsOf(A, tenant_id) :
                 x.type = "aws_s3_bucket" /\ ~EndsWith(x.name, <<"-", "p", "r", "o", "d">>)}}
    \cup
    {[tenant_id |-> tenant_id, asset_id |-> a.id, severity |-> "medium",
      title |-> "Asset has no region set", status |-> "open"] :
        a \in {x \in AssetsOf(A, tenant_id) : x.region = None \/ x.region = Some("")}}

\* a finding without its id and description
Core(f) ==
    [tenant_id |-> f.tenant_id, asset_id |-> f.asset_id, severity |-> f.severity,
     title |-> f.title, status |-> f.status]

\* C5 (rule evaluation is exact and independent): when a run_checks(T) that
\* ran without interleaving has returned, the open findings of T are one low
\* "S3 bucket not tagged as production" per bucket of T whose name does not
\* end with "-prod" and one medium "Asset has no region set" per asset of T
\* whose region is absent or empty, each open, with the asset's id and
\* tenant T, and nothing else; the response holds the same rows.
C5_RulesExact ==
    (pc["w1"] = "done" /\ rq["w1"].op = "run_checks" /\ resp["w1"].kind = "Ok") =>
        LET T == rq["w1"].a.tenant_id
            open == OpenOf(findings, T)
        IN /\ {Core(f) : f \in open} = Expected(assets, T)
           /\ Cardinality(open) = Cardinality(Expected(assets, T))
           /\ resp["w1"].body = open

\* run_checks returned for a tenant with an asset that matches both rules
\* (two findings) and an asset that matches none (no finding)
C5_Witness ==
    /\ pc["w1"] = "done" /\ rq["w1"].op = "run_checks" /\ resp["w1"].kind = "Ok"
    /\ \E a \in AssetsOf(assets, rq["w1"].a.tenant_id) :
          Cardinality({f \in resp["w1"].body : f.asset_id = a.id}) = 2
    /\ \E a \in AssetsOf(assets, rq["w1"].a.tenant_id) :
          {f \in resp["w1"].body : f.asset_id = a.id} = {}

\* ------------------------------------------------------------------- C6
\* what a finding is compared by when ids are ignored
Key(f) ==
    [asset_id |-> f.asset_id, severity |-> f.severity, title |-> f.title,
     description |-> f.description]

\* S1 and S2 hold the same findings, with the same multiplicity, by Key
SameByKey(S1, S2) ==
    \A k \in {Key(f) : f \in S1 \cup S2} :
        Cardinality({f \in S1 : Key(f) = k}) = Cardinality({f \in S2 : Key(f) = k})

\* C6 (idempotence of run_checks): when run_checks(T) has returned and
\* run_checks(T) runs again at once, the second call returns the same open
\* findings as the first, compared by (asset, severity, title, description),
\* and leaves the same stored findings of T under that comparison.
C6_Idempotent ==
    (pc["w1"] = "done" /\ rq["w1"].op = "run_checks" /\ resp["w1"].kind = "Ok") =>
        LET T == rq["w1"].a.tenant_id
            second == RunChecksAlone(assets, findings, seq.findings, T)
        IN /\ SameByKey(resp["w1"].body, second.body)
           /\ SameByKey(FindingsOf(findings, T), FindingsOf(second.findings, T))

\* the first call returned findings, next to a finding that is not open, and
\* the second call gives its rows new ids
C6_Witness ==
    /\ pc["w1"] = "done" /\ rq["w1"].op = "run_checks" /\ resp["w1"].kind = "Ok"
    /\ resp["w1"].body # {}
    /\ \E f \in FindingsOf(findings, rq["w1"].a.tenant_id) : f.status # "open"
    /\ RunChecksAlone(assets, findings, seq.findings, rq["w1"].a.tenant_id).body
          # resp["w1"].body

\* ------------------------------------------------------------------- C7
\* C7 (atomicity of run_checks): the commit that deletes the open findings
\* of T also inserts the new ones; no committed state has the old open
\* findings deleted and the new ones not yet inserted.
C7_Atomic ==
    [][\A p \in Procs :
          (pc[p] = "run_checks_clear" /\ Steps(p)) =>
              findings' = RunChecksAlone(assets, findings, seq.findings,
                                         rq[p].a.tenant_id).findings
      ]_vars

\* ------------------------------------------------------------------- C8
\* C8 (uniqueness invariants): no two tenants have the same name and no
\* (user, tenant) pair has two membership rows, in every reachable state
\* under any interleaving of create_tenant.
C8_Unique ==
    /\ \A t1 \in tenants, t2 \in tenants : t1.name = t2.name => t1 = t2
    /\ \A l1 \in user_tenants, l2 \in user_tenants :
          (l1.user_id = l2.user_id /\ l1.tenant_id = l2.tenant_id) => l1 = l2

\* two create_tenant with the same name raced: both passed the existence
\* check, one inserted, the other was stopped by the constraint
C8_Witness ==
    \E p \in Procs, q \in Procs :
        /\ p # q
        /\ rq[p].op = "create_tenant" /\ rq[q].op = "create_tenant"
        /\ rq[p].a = rq[q].a
        /\ pc[p] = "done" /\ resp[p].kind = "ServerError"
        /\ TenantByName(tenants, rq[p].a.name) # {}

\* ------------------------------------------------------------------- C9
\* C9 (duplicate tenant name is Conflict): a create_tenant that creates no
\* tenant because the name is taken answers with the Conflict kind, also
\* when it passed the existence check before the other call inserted.
C9_DuplicateIsConflict ==
    \A p \in Procs :
        (/\ pc[p] = "done" /\ rq[p].op = "create_tenant"
         /\ resp[p].kind \notin {"Ok", "NotFound"}
         /\ TenantByName(tenants, rq[p].a.name) # {}) =>
            resp[p].kind = "Conflict"

\* ------------------------------------------------------------------ C10
\* C10 (asset deletion cascades): the step that completes a successful
\* delete_asset(a) leaves no finding with asset_id = a, whatever its status,
\* and leaves every other asset and every finding of another asset as it was.
C10_Cascade ==
    [][\A p \in Procs :
          (pc[p] = "delete_asset_commit" /\ Steps(p) /\ resp'[p].kind = "Ok") =>
              LET id == rq[p].a.asset_id
              IN /\ \A f \in findings' : f.asset_id # id
                 /\ \A a \in assets' : a.id # id
                 /\ {a \in assets : a.id # id} = assets'
                 /\ {f \in findings : f.asset_id # id} = findings'
      ]_vars

\* a delete_asset succeeded on an asset that had a resolved finding, and a
\* finding of another asset is still there
C10_Witness ==
    \E p \in Procs :
        /\ pc[p] = "done" /\ rq[p].op = "delete_asset" /\ resp[p].kind = "Ok"
        /\ \E a \in loc[p].obj : a = SeedAsset
        /\ SeedAsset \notin assets
        /\ \A f \in findings : f.asset_id # SeedAsset.id
        /\ \E f \in findings : f.asset_id = SeedOther.id

\* ------------------------------------------------------------------ C11
\* C11 (result of run_checks): the step that returns from run_checks(T)
\* returns all the open findings of T in the store, whoever inserted them,
\* ordered by creation time descending as list_findings orders them.
C11_OpenNewestFirst ==
    [][\A p \in Procs :
          (pc[p] = "run_checks_return" /\ Steps(p)) =>
              /\ resp'[p].body = OpenOf(findings, rq[p].a.tenant_id)
              /\ rows'[p] = Newest(OpenOf(findings, rq[p].a.tenant_id))
      ]_vars

\* ------------------------------------------------------------------ C12
\* C12 (status stays enumerated): every finding's status is one of "open",
\* "resolved", "ignored" in every reachable state, so an update_finding with
\* another value changes nothing.
C12_StatusEnumerated ==
    \A f \in findings : f.status \in {"open", "resolved", "ignored"}

\* ------------------------------------------------------------------ C13
\* the rows of F that rule `title` produced for asset a
RowsFor(F, a, title) == {f \in F : f.asset_id = a.id /\ f.title = title}

\* the condition of the rule with this title holds on a
Holds(title, a) == IF title = Title1 THEN Rule1(a) ELSE Rule2(a)

\* C13 (duplicate on rerun after triage): in a run_checks(T) that runs
\* without interleaving, for every (asset, rule) of T whose condition holds,
\* the clearing step leaves exactly the rows that are not open, as they
\* were, and the inserting step adds exactly one row to them, open and new;
\* so the triaged rows and one open row coexist after the run, and each
\* resolve-then-run round adds one row that is not open.
C13_DuplicateAfterTriage ==
    [][(pc["w1"] \in {"run_checks_clear", "run_checks_insert"} /\ Steps("w1")) =>
          \A a \in AssetsOf(assets, rq["w1"].a.tenant_id) : \A title \in {Title1, Title2} :
              Holds(title, a) =>
                  LET before == RowsFor(findings, a, title)
                      triaged == {f \in before : f.status # "open"}
                      after == RowsFor(findings', a, title)
                  IN IF pc["w1"] = "run_checks_clear"
                     THEN after = triaged
                     ELSE /\ before = triaged
                          /\ triaged \subseteq after
                          /\ Cardinality(after) = Cardinality(triaged) + 1
                          /\ \A f \in after \ triaged :
                                f.status = "open" /\ f.id > seq.findings
      ]_vars

\* a finding was set to ignored, the checks ran, and the ignored row stands
\* next to a new open row for the same asset and rule
C13_Witness ==
    /\ pc["w1"] = "done" /\ rq["w1"].op = "run_checks" /\ resp["w1"].kind = "Ok"
    /\ \E a \in AssetsOf(assets, rq["w1"].a.tenant_id) : \E title \in {Title1, Title2} :
          /\ Holds(title, a)
          /\ \E f \in RowsFor(findings, a, title) : f.status = "ignored"
          /\ \E f \in RowsFor(findings, a, title) : f.status = "open"

\* ------------------------------------------------------------------ C14
\* C14 (referential invariant): in every reachable state, under any
\* interleaving of the two workers, every finding references an asset that
\* exists and belongs to the finding's tenant.
C14_Referential ==
    \A f \in findings :
        \E a \in assets : a.id = f.asset_id /\ a.tenant_id = f.tenant_id

\* a delete_asset committed between the load and the insert of a run_checks,
\* whose insert was refused by the store
C14_Witness ==
    \E p \in Procs :
        /\ pc[p] = "done" /\ rq[p].op = "run_checks" /\ resp[p].kind = "ServerError"
        /\ \E i \in 1 .. Len(loc[p].to_add) :
              \A a \in assets : a.id # loc[p].to_add[i].asset_id

\* ------------------------------------------------------------------ C15
\* C15 (triage changes only the status): the step that completes a
\* successful update_finding(f, s) leaves f with status s and changes nothing
\* else of f, no other finding, no asset, tenant or membership, and no step
\* of a request other than run_checks adds a finding.
C15_OnlyStatus ==
    [][\A p \in Procs :
          /\ (pc[p] = "update_finding_commit" /\ Steps(p) /\ resp'[p].kind = "Ok") =>
                /\ findings' = {IF f.id = rq[p].a.finding_id
                                THEN [f EXCEPT !.status = rq[p].a.status] ELSE f : f \in findings}
                /\ \E f \in findings' : f.id = rq[p].a.finding_id /\ f.status = rq[p].a.status
                /\ UNCHANGED <<users, tenants, user_tenants, assets>>
          /\ (Executes(p) /\ Request(p).op # "run_checks") =>
                {f.id : f \in findings'} \subseteq {f.id : f \in findings}
      ]_vars

\* ------------------------------------------------------------------ C16
\* C16 (tenant creation is all-or-nothing): in every committed state every
\* tenant has a membership row with role "owner"; the tenant and the
\* membership of its creator become visible together.
C16_TenantHasOwner ==
    \A t \in tenants :
        \E l \in user_tenants : l.tenant_id = t.id /\ l.role = "owner"

\* ------------------------------------------------------------------ C17
\* the only requests served so far are one run_checks(T) per worker, which
\* all have returned
OnlyRunsOf(T) ==
    /\ started = Cardinality(Procs)
    /\ \A p \in Procs :
          /\ pc[p] = "done" /\ rq[p].op = "run_checks" /\ resp[p].kind = "Ok"
          /\ rq[p].a.tenant_id = T

\* C17 (no duplicate open findings from concurrent runs): once concurrent
\* run_checks(T) calls have all completed, with no asset change and no triage
\* during them, the open findings of T are those one run_checks(T) produces:
\* one per (asset, rule) whose condition holds.
C17_NoDuplicateOpen ==
    \A T \in TenantIds :
        OnlyRunsOf(T) =>
            /\ {Core(f) : f \in OpenOf(findings, T)} = Expected(assets, T)
            /\ Cardinality(OpenOf(findings, T)) = Cardinality(Expected(assets, T))

\* ------------------------------------------------------------------ C18
\* C18 (a failed operation changes nothing): a request that ends with an
\* error (NotFound, Forbidden, Conflict or a failure of the store) has
\* committed no change to the users, tenants, memberships, assets or
\* findings; a run_checks that fails while inserting has not removed the
\* open findings.
C18_FailedChangesNothing ==
    \A p \in Procs :
        (pc[p] = "done" /\ resp[p].kind \in {"NotFound", "Forbidden", "Conflict", "ServerError"})
            => ~wrote[p]

====
